---- MODULE Spec2Model ----
(***************************************************************************)
(* Livemarkup (src/livemarkup.js): directive compilation and reactive      *)
(* rendering.  The file holds two definitions of the library; `build`      *)
(* says which one is loaded:                                               *)
(*   build = 1  lines 1-717    (Template events are jQuery events on the   *)
(*                              root element, line 143/152)                *)
(*   build = 2  lines 719-1331 (Template events live on a private `$({})`  *)
(*                              emitter, line 756/809/813)                 *)
(* Collaborators are modelled by what the code relies on: jQuery (custom   *)
(* events triggered on an element bubble to its DOM ancestors; .remove()   *)
(* and .text()/.html() drop the jQuery events of the removed elements),    *)
(* Underscore (_.each walks an array-like by index with the length read    *)
(* once; _.memoize caches a result once the call returned) and a           *)
(* Backbone.Model (set fires change:<key> when the value changed, the      *)
(* callbacks of one event are the ones registered when it was triggered).  *)
(*                                                                         *)
(* JavaScript values are written as strings: "null", "undefined", "false", *)
(* "true" and "0" stand for those values, "[]" for the empty array, "[v]"   *)
(* for the array of the one value v, "[X;Y]" for the array of "X" and "Y". *)
(* "" and every other string stand for the string itself; a string that    *)
(* spells one of the values above is written in quotes ("'false'").        *)
(***************************************************************************)
EXTENDS Integers, Sequences, FiniteSets, TLC

\* Largest number of element nodes of the markup a template is created over.
MaxNodes == 4

Fields == {"a"}

\* Values a model attribute takes.
Vals == {"false", "X", "Y"}

\* The attributes of a second model, m2 = new Backbone.Model({a: "Y"}), which
\* the application never sets.
OtherAttrs == [f \in Fields |-> "Y"]


Falsy == {"null", "undefined", "false", "", "0"}

Truthy(v) == v \notin Falsy

\* String(v): the string a value converts to.
Str(v) ==
  IF v \in {"null", "undefined", "false", "true", "0"} THEN "'" \o v \o "'" ELSE v

\* The string jQuery's val() setter and text() produce for one value.
ToStr(v) == IF v \in {"null", "undefined"} THEN "" ELSE Str(v)

\* The values that are not arrays.
Scalars ==
  {"null", "undefined", "false", "true", "0", "", "X", "Y", "yes",
   "'false'", "'true'", "'0'", "X,Y"}

\* [v]
Wrap(v) == IF v = "" THEN "['']" ELSE "[" \o v \o "]"

\* The arrays among the values, with their elements: the empty array, the
\* array of "X" and "Y", and the one-element array of each scalar ("[X,Y]"
\* is the array of the one string "X,Y").
ListElems ==
  [l \in {"[]", "[X;Y]"} \cup {Wrap(v) : v \in Scalars} |->
     IF l = "[]" THEN <<>>
     ELSE IF l = "[X;Y]" THEN <<"X", "Y">>
     ELSE <<CHOOSE v \in Scalars : Wrap(v) = l>>]

\* _.isArray(v)
isArray(v) == v \in DOMAIN ListElems

\* array.join(",") of strings
RECURSIVE Join(_, _)
Join(seq, i) ==
  IF i > Len(seq) THEN ""
  ELSE IF i = Len(seq) THEN seq[i]
  ELSE seq[i] \o "," \o Join(seq, i + 1)

-----------------------------------------------------------------------------
(* Attribute names, as character sequences.                                *)

LowerOf ==
  [c \in {"A", "B", "C", "D", "E", "F", "H", "T", "X"} |->
     CASE c = "A" -> "a" [] c = "B" -> "b" [] c = "C" -> "c" [] c = "D" -> "d"
       [] c = "E" -> "e" [] c = "F" -> "f" [] c = "H" -> "h" [] c = "T" -> "t"
       [] c = "X" -> "x"]

IdentChars ==
  {"a", "c", "e", "f", "h", "i", "l", "m", "n", "o", "r", "s", "t", "u", "v",
   "x", "y", "H", "T", "X", "_", "0"}

\* String.prototype.toLowerCase, character by character.
toLowerCase(str) ==
  [i \in 1..Len(str) |-> IF str[i] \in DOMAIN LowerOf THEN LowerOf[str[i]] ELSE str[i]]

N_text == <<"@", "t", "e", "x", "t">>
N_Html == <<"@", "H", "t", "m", "l">>
N_if == <<"@", "i", "f">>
N_value == <<"@", "v", "a", "l", "u", "e">>
N_class == <<"@", "c", "l", "a", "s", "s", "(", "o", "n", ")">>
N_foo == <<"@", "f", "o", "o">>
N_each == <<"@", "e", "a", "c", "h", "(", "v", ")">>
N_constructor == <<"@", "c", "o", "n", "s", "t", "r", "u", "c", "t", "o", "r">>
N_dash == <<"@", "x", "-", "y">>
N_plainclass == <<"c", "l", "a", "s", "s">>
N_type == <<"t", "y", "p", "e">>
N_name == <<"n", "a", "m", "e">>
N_plainvalue == <<"v", "a", "l", "u", "e">>

\* Length of the longest prefix of str, from position i on, made of characters in cs.
RECURSIVE RunLen(_, _, _)
RunLen(str, i, cs) ==
  IF i <= Len(str) /\ str[i] \in cs THEN 1 + RunLen(str, i + 1, cs) ELSE 0

NoMatch == [match |-> FALSE, action |-> <<>>, param |-> <<>>]

\* name.match(/^@([a-zA-Z0-9\_]+)(?:\(([^\)]+)\))?$/): the action and the param.
parseDirective(name) ==
  IF Len(name) < 2 \/ name[1] # "@" THEN NoMatch
  ELSE LET k == RunLen(name, 2, IdentChars)
           act == SubSeq(name, 2, k + 1)
           rest == SubSeq(name, k + 2, Len(name))
       IN IF k = 0 THEN NoMatch
          ELSE IF rest = <<>> THEN [match |-> TRUE, action |-> act, param |-> <<>>]
          ELSE IF /\ Len(rest) >= 3
                  /\ rest[1] = "("
                  /\ rest[Len(rest)] = ")"
                  /\ \A j \in 2..(Len(rest) - 1) : rest[j] # ")"
               THEN [match |-> TRUE, action |-> act, param |-> SubSeq(rest, 2, Len(rest) - 1)]
          ELSE NoMatch

\* The keys of the Actions object of each definition of the library.
ActionsOf(b) ==
  {<<"t", "e", "x", "t">>, <<"a", "t">>, <<"c", "l", "a", "s", "s">>,
   <<"h", "t", "m", "l">>, <<"v", "a", "l", "u", "e">>, <<"i", "f">>}
  \cup (IF b = 1 THEN {<<"r", "u", "n">>} ELSE {})

\* Actions is a plain object literal: a lookup also finds what it inherits from
\* Object.prototype.  Of the inherited keys that a lower-cased identifier can
\* spell, "constructor" (the function Object) is the one taken here.
InheritedKeys == {<<"c", "o", "n", "s", "t", "r", "u", "c", "t", "o", "r">>}

\* getAction(name): the registered action's key, "Object" for the inherited
\* function, or "throw" for the `No action named` error.
getAction(b, name) ==
  LET key == toLowerCase(name)
  IN IF key \in ActionsOf(b) THEN key
     ELSE IF key \in InheritedKeys THEN <<"O", "b", "j", "e", "c", "t">>
     ELSE <<"t", "h", "r", "o", "w">>

-----------------------------------------------------------------------------
(* Markup: the element tree a template is created over.                    *)

A_text == <<"t", "e", "x", "t">>
A_html == <<"h", "t", "m", "l">>
A_at == <<"a", "t">>
A_class == <<"c", "l", "a", "s", "s">>
A_value == <<"v", "a", "l", "u", "e">>
A_if == <<"i", "f">>
A_Object == <<"O", "b", "j", "e", "c", "t">>
A_throw == <<"t", "h", "r", "o", "w">>

\* An attribute value that is a directive expression is kept as the modifier
\* calls its script makes, in the order written.
Call(m, arg) == [m |-> m, arg |-> arg]

Plain(name, v) == [name |-> name, v |-> v, calls |-> <<>>]
Dir(name, calls) == [name |-> name, v |-> "", calls |-> calls]

E_attrA == <<Call("attr", "a")>>
\* attr("a") -> !val
E_attrAfn == <<Call("attr", "a"), Call("format", "not")>>
\* on("sync") -> "yes"
E_on == <<Call("on", "sync"), Call("format", "yes")>>
\* -> "yes"
E_fmt == <<Call("format", "yes")>>
\* -> ["X", "Y"]
E_seq == <<Call("format", "[X;Y]")>>

Kinds ==
  << [tag |-> "div", attrs |-> <<>>],
     [tag |-> "div", attrs |-> <<Dir(N_dash, E_attrA), Dir(N_text, E_attrAfn)>>],
     [tag |-> "div", attrs |-> <<Dir(N_Html, E_on)>>],
     [tag |-> "div", attrs |-> <<Dir(N_class, E_attrA)>>],
     [tag |-> "div", attrs |-> <<Dir(N_if, E_attrA)>>],
     [tag |-> "text", attrs |-> <<Plain(N_type, "text"), Dir(N_value, E_attrA)>>],
     [tag |-> "radio", attrs |-> <<Plain(N_type, "radio"), Plain(N_name, "number"),
                                   Plain(N_plainvalue, "X"), Dir(N_value, E_attrA)>>],
     [tag |-> "radio", attrs |-> <<Plain(N_type, "radio"), Plain(N_name, "number"),
                                   Plain(N_plainvalue, "Y")>>],
     [tag |-> "div", attrs |-> <<Dir(N_text, E_fmt), Plain(N_plainclass, "c")>>],
     [tag |-> "div", attrs |-> <<Dir(N_foo, E_attrA)>>],
     [tag |-> "div", attrs |-> <<Dir(N_constructor, E_attrA)>>],
     [tag |-> "div", attrs |-> <<Dir(N_text, E_fmt)>>],
     [tag |-> "div", attrs |-> <<Plain(N_plainclass, "list"), Dir(N_each, E_seq)>>] >>

\* The root is a plain container element, as in $("<p>").html(markup).
RootKinds == {1}

\* The kinds of a wrapper and of the conditional element inside it.
WrapperKinds == {1}
ConditionalKinds == {n \in 1..Len(Kinds) : \E i \in 1..Len(Kinds[n].attrs) :
                                              Kinds[n].attrs[i].name = N_if}

\* parent[n] < n: nodes are numbered in document order (pre-order).
RECURSIVE IsAncestor(_, _, _)
IsAncestor(par, a, n) ==
  IF n = 0 THEN FALSE ELSE IF par[n] = a THEN TRUE ELSE IsAncestor(par, a, par[n])

TreesOf(k) ==
  {p \in [1..k -> 0..k] :
     /\ p[1] = 0
     /\ \A n \in 2..k :
          /\ p[n] \in 1..(n - 1)
          \* pre-order: the parent is the previous node or one of its ancestors
          /\ p[n] = n - 1 \/ IsAncestor(p, p[n], n - 1)}

\* A conditional element inside a plain wrapper, followed by siblings of the
\* wrapper: <p><div><div @if=...></div></div><...></p>.
Wrapped(p) ==
  /\ DOMAIN p = 1..MaxNodes
  /\ p[2] = 1 /\ p[3] = 2 /\ \A n \in 4..MaxNodes : p[n] = 1

\* Every tree of MaxNodes - 1 elements, and the wrapped ones of MaxNodes.
Trees == TreesOf(MaxNodes - 1) \cup {p \in TreesOf(MaxNodes) : Wrapped(p)}

Children(par, n) == {c \in DOMAIN par : par[c] = n}

RECURSIVE Descendants(_, _)
Descendants(par, n) ==
  LET cs == Children(par, n)
  IN cs \cup UNION {Descendants(par, c) : c \in cs}

\* A set of naturals as the increasing sequence of its elements.
RECURSIVE SortedSeq(_)
SortedSeq(S) ==
  IF S = {} THEN <<>>
  ELSE LET m == CHOOSE x \in S : \A y \in S : x <= y
       IN <<m>> \o SortedSeq(S \ {m})

-----------------------------------------------------------------------------
(* Program state.                                                          *)

VARIABLES
  build,       \* which definition of the library is loaded (1 or 2)
  par,         \* markup: parent of each element (0 for the root)
  tag,         \* markup: "div", "text" (input type=text), "radio" or "check"
  attributes,  \* element.attributes of each element, in order
  mounted,     \* whether the element is attached to its parent
  holder,      \* the @if elements whose empty text node is in place in the parent
  dirs,        \* every Directive object constructed so far
  tpl,         \* the Template object rooted at each element (made = it exists)
  handlers,    \* the 'destroy' handlers of the Template rooted at each element
  listeners,   \* the DOM event listeners on each element
  subs,        \* the model's event callbacks, in registration order
  mattrs,      \* the model's attributes
  ctl,         \* the value each form control shows
  checked,     \* the checked state of each radio and checkbox
  text,        \* what @text/@html wrote into each element ("-" = the markup's content)
  cls,         \* whether the element has the class of its @class directive
  atv,         \* the value @at wrote ("-" = never set or removed)
  last,        \* the last call made to the program and what it did
  hist,        \* what happened so far (history, for stating properties)
  compiled     \* one directive attribute value on its way through parseDirective
               \* and the runner of the Directive constructor

\* The elements of the markup.
Nodes == DOMAIN par

vars == <<build, par, tag, attributes, mounted, holder, dirs, tpl, handlers,
          listeners, subs, mattrs, ctl, checked, text, cls, atv, last, hist,
          compiled>>

\* The program state as one record, plus what one call keeps on its stack:
\* err (the exception in flight), renders/sets (what the call did), acc and
\* stop (the locals of fetchDirectives and walk).
State ==
  [build |-> build, par |-> par, tag |-> tag, attributes |-> attributes,
   mounted |-> mounted, holder |-> holder, dirs |-> dirs, tpl |-> tpl,
   handlers |-> handlers, listeners |-> listeners, subs |-> subs,
   mattrs |-> mattrs, ctl |-> ctl, checked |-> checked, text |-> text,
   cls |-> cls, atv |-> atv, hist |-> hist,
   err |-> "none", renders |-> <<>>, sets |-> <<>>, acc |-> <<>>, stop |-> FALSE]

Ok(s) == s.err = "none"

Throw(s, e) == [s EXCEPT !.err = e]

\* A model event name: <<"change", field>> for change:<field>, <<name, "">> otherwise.
Ev(name, arg) == <<name, arg>>

\* No attribute value is being compiled.
NotCompiled == [forms |-> <<>>, locals |-> {}, helpers |-> {}, name |-> "", sees |-> ""]

\* view: the Template was created from a Backbone view that has listenTo
\* (lines 71-75 / 758-762).
NoTemplate ==
  [made |-> FALSE, memo |-> FALSE, directives |-> <<>>, model |-> "null", view |-> FALSE]

-----------------------------------------------------------------------------
(* DOM helpers (jQuery).                                                   *)

\* Whether the element is connected to the document: a root element is when
\* it was put into the page (mounted), and so is an element whose ancestors
\* up to a root are all attached.
RECURSIVE InDocument(_, _)
InDocument(s, n) ==
  IF s.par[n] = 0 THEN s.mounted[n] ELSE s.mounted[n] /\ InDocument(s, s.par[n])

\* The elements of the subtree of n that are connected to n (n included).
RECURSIVE Subtree(_, _)
Subtree(s, n) ==
  {n} \cup UNION {Subtree(s, c) : c \in {c \in Children(s.par, n) : s.mounted[c]}}

\* jQuery.cleanData on a set of elements: their jQuery events are dropped.
\* In build 1 the Template's 'destroy' handlers are jQuery events of the root
\* element (line 143); in build 2 they are on a private emitter (line 809).
cleanData(s, ns) ==
  [s EXCEPT !.listeners = [m \in Nodes |-> IF m \in ns THEN <<>> ELSE @[m]],
            !.handlers = [m \in Nodes |->
                            IF m \in ns /\ s.build = 1 THEN <<>> ELSE @[m]]]

\* $el.remove(): cleans the element and its descendants, then detaches it.
RemoveEl(s, n) ==
  [cleanData(s, Subtree(s, n)) EXCEPT !.mounted[n] = FALSE]

\* $el.text(v) / $el.html(v): the descendants are cleaned and removed.
EmptyEl(s, n) ==
  LET kids == Subtree(s, n) \ {n}
  IN [cleanData(s, kids) EXCEPT
        !.mounted = [m \in Nodes |-> IF m \in Children(s.par, n) THEN FALSE ELSE @[m]],
        !.holder = @ \ Children(s.par, n)]

\* element.getAttribute(name) on the live attribute list ("undefined" if absent).
AttrOf(s, n, name) ==
  LET hits == {i \in 1..Len(s.attributes[n]) : s.attributes[n][i].name = name}
  IN IF hits = {} THEN "undefined" ELSE s.attributes[n][CHOOSE i \in hits : TRUE].v

RemoveAt(seq, i) == SubSeq(seq, 1, i - 1) \o SubSeq(seq, i + 1, Len(seq))

\* The elements of the jQuery collection a Template was created over: the
\* root Template's is the whole collection given to LM(), a sub-Template's
\* the conditional element.
TemplateEls(s, t) ==
  IF s.par[t] = 0 THEN SortedSeq({n \in DOMAIN s.par : s.par[n] = 0}) ELSE <<t>>

\* Template.prototype.on('destroy', h).  Lines 137-144: this.$el.on binds the
\* handler on every element of the collection; lines 808-810: the private
\* emitter holds it (kept at the Template's first element).
TemplateOn(s, t, h) ==
  LET els == IF s.build = 1
             THEN {TemplateEls(s, t)[i] : i \in DOMAIN TemplateEls(s, t)} ELSE {t}
  IN [s EXCEPT !.handlers = [m \in DOMAIN s.par |->
                               IF m \in els THEN Append(@[m], h) ELSE @[m]]]

-----------------------------------------------------------------------------
(* History kept for stating properties; the program does not read it.      *)

\* The truthiness of the first renders of an @if directive: "-" none yet,
\* "T", "TF", "TFT" the sequence so far, "x" any other sequence.
NextPhase(ph, truthy) ==
  CASE ph = "-" /\ truthy -> "T"
    [] ph = "T" /\ ~truthy -> "TF"
    [] ph = "TF" /\ truthy -> "TFT"
    [] ph = "TFT" -> "TFT"
    [] OTHER -> "x"

Counting(ph) == ph \in {"-", "T", "TF"}

\* Template t is constructed / destroy() is called on it / it is rendered.
NoteMade(s, t) == [s EXCEPT !.hist.made[t] = IF @ < 2 THEN @ + 1 ELSE @]

NoteDestroy(s, t) ==
  [s EXCEPT !.hist.dcount[t] = IF Counting(s.hist.phase[t]) /\ @ < 3 THEN @ + 1 ELSE @,
            !.hist.life[t] = IF @ = "fresh" THEN "destroyed" ELSE @]

NoteRender(s, t) ==
  [s EXCEPT !.hist.life[t] = IF @ = "destroyed" THEN "reused" ELSE @]

NoteIf(s, n, truthy) ==
  LET ph == NextPhase(s.hist.phase[n], truthy)
  IN [s EXCEPT !.hist.phase[n] = ph,
               !.hist.dcount[n] = IF ph = "x" THEN 0 ELSE @]

-----------------------------------------------------------------------------
(* Modifiers (lines 573-633, 1202-1262).                                   *)

\* Modifiers.on with the model given or defaulted to dir.model; k identifies
\* the callback `fn` this call creates.
ModifiersOn(s, d, model, ev, k) ==
  LET m == IF model = "null" THEN s.dirs[d].model ELSE model
      t == s.dirs[d].tpl
  IN IF m = "null" THEN Throw(s, "on(): no model to bind to")
     ELSE \* view.listenTo / model.on, and the handler that undoes it
          TemplateOn([s EXCEPT !.subs = Append(@, [ev |-> ev, dir |-> d, k |-> k,
                                                   via |-> s.tpl[t].view, on |-> m])],
                     t, [h |-> "off", dir |-> d, ev |-> ev, k |-> k])

\* A format() that listens to the change of "a" as well.
formatListening(s, d, f, arg) ==
  ModifiersOn([s EXCEPT !.dirs[d].formatters = Append(@, [f |-> f, arg |-> arg])],
              d, "null", Ev("change", "a"), 0)

\* Modifiers.format, lines 624-633 / 1253-1262: the formatter is pushed.
ModifiersFormat(s, d, f, arg) ==
  [s EXCEPT !.dirs[d].formatters = Append(@, [f |-> f, arg |-> arg])]

\* Modifiers.attr without the test of line 578: the model is used as it is.
attrUnchecked(s, d, name, k) ==
  LET s1 == IF s.dirs[d].attrib = "none"
            THEN [s EXCEPT !.dirs[d].attrib = name] ELSE s
  IN ModifiersFormat(ModifiersOn(s1, d, s.dirs[d].model, Ev("change", name), k),
                     d, "get", name)

ModifiersAttr(s, d, name, k) ==
  LET m == s.dirs[d].model
  IN IF m = "null" THEN Throw(s, "attr(): no model to bind to")
     ELSE LET s1 == IF s.dirs[d].attrib = "none"
                    THEN [s EXCEPT !.dirs[d].attrib = name] ELSE s
              s2 == ModifiersOn(s1, d, m, Ev("change", name), k)
          \* the formatter closes over `model`: "get" reads the first model,
          \* "get2" the second one
          IN ModifiersFormat(s2, d, IF m = "m" THEN "get" ELSE "get2", name)

\* Running the expression script: the modifier calls, left to right.
RECURSIVE RunCalls(_, _, _, _)
RunCalls(s, d, calls, k) ==
  IF k > Len(calls) \/ ~Ok(s) THEN s
  ELSE LET c == calls[k]
           s1 == CASE c.m = "attr" -> ModifiersAttr(s, d, c.arg, k)
                   [] c.m = "on" -> ModifiersOn(s, d, "null", Ev(c.arg, ""), k)
                   [] OTHER -> ModifiersFormat(s, d, "fn", c.arg)
       IN RunCalls(s1, d, calls, k + 1)

-----------------------------------------------------------------------------
(* Actions: what each initializer does when the Directive is constructed.  *)

ActionsStop(s, d) == [s EXCEPT !.dirs[d].stopped = TRUE]

\* Actions.value, lines 435-451 / 1084-1097: the scope of the directive, and
\* the 'destroy' handler (lines 478-480 / 1116-1118).
ValueScope(s, n) ==
  IF s.tag[n] \in {"radio", "check"}
  THEN IF InDocument(s, n)
       THEN {m \in Nodes : InDocument(s, m) /\ AttrOf(s, m, N_name) = AttrOf(s, n, N_name)}
       ELSE {}
  ELSE {n}

ActionsValue(s, d) ==
  LET t == s.dirs[d].tpl
  IN TemplateOn([s EXCEPT !.dirs[d].scope = ValueScope(s, s.dirs[d].node)],
                t, [h |-> "offChange", dir |-> d, ev |-> Ev("", ""), k |-> 0])

\* Actions.if, lines 489-503 and 516-517 / 1127-1141 and 1154-1155.
ActionsIf(s, d) ==
  LET t == s.dirs[d].tpl
      n == s.dirs[d].node
      s1 == ActionsStop(s, d)
      s2 == [s1 EXCEPT !.holder = @ \cup {n}]
      s3 == RemoveEl(s2, n)
      s4 == [NoteMade(s3, n) EXCEPT
               !.tpl[n] = [made |-> TRUE, memo |-> FALSE, directives |-> <<>>,
                           model |-> s.tpl[t].model, view |-> FALSE]]
  IN TemplateOn(s4, t, [h |-> "ifDestroy", dir |-> d, ev |-> Ev("", ""), k |-> 0])

RunAction(s, d, act) ==
  CASE act \in {A_text, A_html} -> ActionsStop(s, d)
    [] act = A_value -> ActionsValue(s, d)
    [] act = A_if -> ActionsIf(s, d)
    [] OTHER -> s   \* at, class, run set onrender only; Object() does nothing

\* new Directive(template, el, action, param, value), lines 274-291 / 927-944.
Directive(s, t, n, action, param, calls) ==
  LET act == getAction(s.build, action)
      d == Len(s.dirs) + 1
      obj == [tpl |-> t, node |-> n, action |-> act, name |-> action, param |-> param,
              model |-> s.tpl[t].model, formatters |-> <<>>, stopped |-> FALSE,
              attrib |-> "none", bound |-> FALSE, scope |-> {}, value |-> calls]
  IN IF act = A_throw THEN Throw(s, "No action named")
     ELSE LET s1 == [s EXCEPT !.dirs = Append(@, obj)]
              s2 == RunAction(s1, d, act)
          IN RunCalls(s2, d, calls, 1)

-----------------------------------------------------------------------------
(* Template.fetchDirectives, lines 230-257 / 886-913.                      *)

\* eachAttribute + the callback of walk: _.each reads node.attributes.length
\* once (len) and then indexes the live list, from which removeAttribute
\* takes the directive attributes out as they are found.
\* lines 242-244 / 898-900: the new directive (the last one made) is pushed
\* and its _stopped flag read.
pushDirective(s) ==
  IF Ok(s)
  THEN [s EXCEPT !.acc = Append(@, Len(s.dirs)),
                 !.stop = @ \/ s.dirs[Len(s.dirs)].stopped]
  ELSE s

\* lines 239-244 / 895-900: attribute i of n parsed as p is a directive.
foundDirective(s, t, n, i, p) ==
  pushDirective(Directive([s EXCEPT !.attributes[n] = RemoveAt(@, i)], t, n,
                          p.action, p.param, s.attributes[n][i].calls))

RECURSIVE walkAttributes(_, _, _, _, _)
walkAttributes(s, t, n, i, len) ==
  IF i > len \/ ~Ok(s) THEN s
  ELSE IF i > Len(s.attributes[n])
  THEN Throw(s, "TypeError")   \* attr is undefined: attr.nodeName
  ELSE IF ~parseDirective(s.attributes[n][i].name).match
  THEN walkAttributes(s, t, n, i + 1, len)
  ELSE walkAttributes(foundDirective(s, t, n, i, parseDirective(s.attributes[n][i].name)),
                      t, n, i + 1, len)

\* parent.children is live as well: an @if child detaches itself while the
\* list is walked by index up to the length read at the start (len).
LiveChildren(s, n) == SortedSeq({c \in Children(s.par, n) : s.mounted[c]})

RECURSIVE walk(_, _, _), descend(_, _, _), walkChildren(_, _, _, _, _)
walk(s, t, n) ==
  descend(walkAttributes([s EXCEPT !.stop = FALSE], t, n, 1, Len(s.attributes[n])), t, n)

\* lines 249-253 / 905-909: `if (!stop)` the children are walked.
descend(s, t, n) ==
  IF ~Ok(s) \/ s.stop THEN s
  ELSE walkChildren(s, t, n, 1, Len(LiveChildren(s, n)))

walkChildren(s, t, n, i, len) ==
  IF i > len \/ ~Ok(s) THEN s
  ELSE IF i > Len(LiveChildren(s, n))
  THEN Throw(s, "TypeError")   \* child is undefined: child.nodeType
  ELSE walkChildren(walk(s, t, LiveChildren(s, n)[i]), t, n, i + 1, len)

fetchDirectives(s, t) == walk([s EXCEPT !.acc = <<>>], t, t)

-----------------------------------------------------------------------------
(* Rendering.                                                              *)

\* One formatter applied to the running value.
ApplyFormatter(s, f, val) ==
  CASE f.f = "get" -> s.mattrs[f.arg]                             \* model.get(name)
    [] f.f = "get2" -> OtherAttrs[f.arg]                          \* the same, of m2
    [] f.arg = "not" -> IF Truthy(val) THEN "false" ELSE "true"   \* -> !val
    [] OTHER -> f.arg                                             \* -> "yes"

\* Directive.prototype.getValue, lines 338-344 / 987-993.
RECURSIVE inject(_, _, _, _), injectRight(_, _, _, _)
\* A fold that runs the formatters from the last one to the first.
injectRight(s, fs, i, val) ==
  IF i > Len(fs) THEN val ELSE ApplyFormatter(s, fs[i], injectRight(s, fs, i + 1, val))

inject(s, fs, i, val) ==
  IF i > Len(fs) THEN val ELSE inject(s, fs, i + 1, ApplyFormatter(s, fs[i], val))

getValue(s, d) == inject(s, s.dirs[d].formatters, 1, "null")

\* The controls of element n's radio group: the connected radios of its name.
RadioGroup(s, n) ==
  {m \in DOMAIN s.par : /\ s.tag[m] = "radio"
                         /\ InDocument(s, m) = InDocument(s, n)
                         /\ AttrOf(s, m, N_name) = AttrOf(s, n, N_name)}

\* elem.checked = true: a radio takes the checked state from the others of
\* its group.
SetChecked(s, n) ==
  [s EXCEPT !.checked = [m \in DOMAIN s.par |->
      IF m = n THEN TRUE
      ELSE IF s.tag[n] = "radio" /\ m \in RadioGroup(s, n) THEN FALSE ELSE @[m]]]

RECURSIVE checkEach(_, _, _, _)
checkEach(s, els, i, hit) ==
  IF i > Len(els) THEN s
  ELSE checkEach(IF els[i] \in hit THEN SetChecked(s, els[i]) ELSE s, els, i + 1, hit)

\* The string an element of the value list is compared as: recheck builds the
\* selector [value="<v>"] by concatenation (line 703), jQuery's val(array)
\* maps null and undefined to "" (second definition, line 1105).
AsString(b, v) == IF b = 2 THEN ToStr(v) ELSE Str(v)

\* The checkable controls of the scope whose value attribute is in the list.
Matching(s, scope, list) ==
  {m \in scope : /\ s.tag[m] \in {"radio", "check"}
                  /\ \E i \in DOMAIN list :
                        AsString(s.build, list[i]) = AttrOf(s, m, N_plainvalue)}

\* recheck(scope, val), lines 701-715, and jQuery's val(array) on radios and
\* checkboxes (second definition, line 1105): the controls of the scope are
\* unchecked, then those whose value is in the array are checked in turn.
recheck(s, scope, val) ==
  checkEach([s EXCEPT !.checked = [m \in DOMAIN s.par |->
                         IF m \in scope /\ s.tag[m] \in {"radio", "check"}
                         THEN FALSE ELSE @[m]]],
            SortedSeq(scope), 1, Matching(s, scope, ListElems[val]))

\* The text a value shows as when assigned to a control's value.
TextOf(val) ==
  IF isArray(val)
  THEN Join([i \in DOMAIN ListElems[val] |-> ToStr(ListElems[val][i])], 1)
  ELSE ToStr(val)

\* elem.value = val on a radio or checkbox writes its value attribute.
SetValueAttr(attrs, val) ==
  [i \in DOMAIN attrs |-> IF attrs[i].name = N_plainvalue
                           THEN [attrs[i] EXCEPT !.v = TextOf(val)] ELSE attrs[i]]

\* scope.val(val) with a value that is not an array, or on controls that are
\* not checkable: the value is assigned.
SetVal(s, scope, val) ==
  [s EXCEPT !.ctl = [m \in DOMAIN s.par |->
                       IF m \in scope /\ s.tag[m] = "text" THEN TextOf(val) ELSE @[m]],
            !.attributes = [m \in DOMAIN s.par |->
                       IF m \in scope /\ s.tag[m] \in {"radio", "check"} /\ ~isArray(val)
                       THEN SetValueAttr(@[m], val) ELSE @[m]]]

\* jQuery's scope.val(val): an array checks the checkable controls, any
\* other control and any other value is an assignment.
jqVal(s, scope, val) ==
  SetVal(IF isArray(val) THEN recheck(s, scope, val) ELSE s, scope, val)

\* No element taken for multi-valued.
notMulti(s, d) == FALSE

\* Whether the directive's own element is multi-valued (lines 442-445 / 1091).
isMulti(s, d) == s.tag[s.dirs[d].node] \in {"radio", "check"}

\* The value as the onrender of Actions.value passes it on: line 456 wraps
\* whatever is not an array, line 1102 only for a multi-valued control.
coerce(b, multi, val) ==
  IF isArray(val) THEN val
  ELSE IF b = 1 \/ multi THEN Wrap(val) ELSE val

\* lines 458-466: recheck when the scope has a radio or checkbox, else
\* scope.val(val); line 1105: scope.val(val).
applyValue(s, scope, val) ==
  IF s.build = 1 /\ \E m \in scope : s.tag[m] \in {"radio", "check"}
  THEN recheck(s, scope, val)
  ELSE jqVal(s, scope, val)

\* The listener of lines 468-475 / 1107-1112, attached once (dir.bound).
bindChange(s, d) ==
  IF s.dirs[d].attrib # "none" /\ ~s.dirs[d].bound
  THEN [s EXCEPT !.dirs[d].bound = TRUE,
                 !.listeners = [m \in DOMAIN s.par |->
                    IF m \in s.dirs[d].scope
                    THEN Append(@[m], [dir |-> d,
                                       evs |-> IF s.build = 1 THEN {"change", "click"}
                                               ELSE {"change"}])
                    ELSE @[m]]]
  ELSE s

\* The onrender of Actions.value, lines 453-476 / 1099-1114.
RenderValue(s, d) ==
  bindChange(applyValue(s, s.dirs[d].scope,
                        coerce(s.build, isMulti(s, d), getValue(s, d))), d)

\* The elements a 'destroy' event triggered on n reaches.  jQuery bubbles a
\* triggered event through the DOM ancestors (build 1: the Template's events
\* are the root element's, lines 143 and 152); the private emitter of build 2
\* has no ancestors (lines 756, 809, 813).
RECURSIVE AncestorPath(_, _)
AncestorPath(s, n) ==
  IF s.par[n] = 0 \/ ~s.mounted[n] THEN <<>>
  ELSE <<s.par[n]>> \o AncestorPath(s, s.par[n])

EventPath(s, n) == IF s.build = 1 THEN <<n>> \o AncestorPath(s, n) ELSE <<n>>

\* model.off(name, fn), lines 618 / 1247, and view.stopListening(model, name,
\* fn), lines 612 / 1241: the callback is taken off the model.
ModelOff(s, h) ==
  [s EXCEPT !.subs = SelectSeq(@, LAMBDA c : ~(c.ev = h.ev /\ c.dir = h.dir /\ c.k = h.k))]

\* dir.$el.off('change', onchange), lines 479 / 1117: takes the 'change'
\* listener of this directive off the directive's own element; with onchange
\* still undefined, jQuery takes every 'change' listener off that element.
OffChange(s, d) ==
  LET n == s.dirs[d].node
      cut(l) == IF l.dir = d \/ ~s.dirs[d].bound
                THEN [l EXCEPT !.evs = @ \ {"change"}] ELSE l
      mapped == [i \in 1..Len(s.listeners[n]) |-> cut(s.listeners[n][i])]
  IN [s EXCEPT !.listeners[n] = SelectSeq(mapped, LAMBDA l : l.evs # {})]

\* Template.prototype.destroy (lines 218-221 / 874-877) is trigger('destroy').
\* `active` holds the elements whose trigger is on the call stack: a handler
\* changes neither the handler lists nor the tree, so a trigger that
\* re-enters itself recurses without end and the engine throws RangeError.
RECURSIVE Trigger(_, _, _), Dispatch(_, _, _, _), RunHandlers(_, _, _, _)
RECURSIVE TriggerEach(_, _, _)
Trigger(s, n, active) ==
  IF n \in active THEN Throw(s, "RangeError")
  ELSE Dispatch(s, EventPath(s, n), 1, active \cup {n})

Dispatch(s, path, i, active) ==
  IF i > Len(path) \/ ~Ok(s) THEN s
  ELSE Dispatch(RunHandlers(s, s.handlers[path[i]], 1, active), path, i + 1, active)

RunHandlers(s, hs, j, active) ==
  IF j > Len(hs) \/ ~Ok(s) THEN s
  ELSE LET h == hs[j]
           s1 == CASE h.h = "off" -> ModelOff(s, h)
                   [] h.h = "offChange" -> OffChange(s, h.dir)
                   [] OTHER ->   \* dir.sub.destroy(), lines 517 / 1155
                        Trigger(NoteDestroy(s, s.dirs[h.dir].node),
                                s.dirs[h.dir].node, active)
       IN RunHandlers(s1, hs, j + 1, active)

\* jQuery's trigger on a collection triggers the event on each element in turn.
TriggerEach(s, els, i) ==
  IF i > Len(els) \/ ~Ok(s) THEN s
  ELSE TriggerEach(Trigger(s, els[i], {}), els, i + 1)

destroy(s, t) ==
  TriggerEach(NoteDestroy(s, t), IF s.build = 1 THEN TemplateEls(s, t) ELSE <<t>>, 1)

\* $el.addClass(className) for a truthy value, nothing otherwise.
addClassOnly(s, n, val) == IF Truthy(val) THEN [s EXCEPT !.cls[n] = TRUE] ELSE s

\* The onrender of Actions.class, lines 403-407: $el.toggleClass(className, !!val).
toggleClass(s, n, val) == [s EXCEPT !.cls[n] = Truthy(val)]

\* Directive.prototype.render (lines 350-352) with the onrender of each action,
\* and Template.prototype.render (lines 165-170) with the memoized initialize
\* (lines 67, 180-184).
RECURSIVE DirRender(_, _), render(_, _), RenderAll(_, _, _), renderDirectives(_, _)
\* $el.remove() once this.sub.destroy() has returned (lines 512-513 / 1150-1151).
afterSubDestroy(s, n) == IF Ok(s) THEN RemoveEl(s, n) ELSE s

DirRender(s, d) ==
  LET act == s.dirs[d].action
      n == s.dirs[d].node
      v == IF act = A_Object THEN "-" ELSE getValue(s, d)
      s0 == [(IF act = A_if THEN NoteIf(s, n, Truthy(v)) ELSE s) EXCEPT
               !.renders = Append(@, [dir |-> d, val |-> v,
                                      applied |-> IF act = A_value
                                                  THEN coerce(s.build, isMulti(s, d), v)
                                                  ELSE v]),
               !.hist.rendered = @ \cup {d}]
  IN CASE act = A_text -> [EmptyEl(s0, n) EXCEPT !.text[n] = ToStr(v)]
       [] act = A_html ->
            [EmptyEl(s0, n) EXCEPT !.text[n] = IF v \in {"false", "null"} THEN "" ELSE v]
       [] act = A_at ->
            [s0 EXCEPT !.atv[n] = IF v \in {"false", "null"} THEN "-" ELSE v]
       [] act = A_class -> toggleClass(s0, n, v)
       [] act = A_value -> RenderValue(s0, d)
       [] act = A_if ->
            IF Truthy(v)
            THEN \* $holder.after($el); this.sub.render()
                 render([s0 EXCEPT !.mounted[n] = (n \in s0.holder)], n)
            ELSE \* this.sub.destroy(); $el.remove()
                 afterSubDestroy(destroy(s0, n), n)
       [] OTHER -> s0   \* run: the value is computed; Object: no onrender

\* _.memoize (line 67 / 754) keeps the result of an initialize that returned.
memoize(w, t) ==
  IF Ok(w) THEN [w EXCEPT !.tpl[t].directives = w.acc, !.tpl[t].memo = TRUE] ELSE w

\* Template.prototype.initialize, lines 180-184 / 839-843.
initialize(s, t) == IF s.tpl[t].memo THEN s ELSE memoize(fetchDirectives(s, t), t)

render(s, t) == renderDirectives(initialize(NoteRender(s, t), t), t)

\* lines 167-168 / 826-827: _.each(this.directives, dir.render()).
renderDirectives(s, t) == IF Ok(s) THEN RenderAll(s, s.tpl[t].directives, 1) ELSE s

RenderAll(s, ds, i) ==
  IF i > Len(ds) \/ ~Ok(s) THEN s
  ELSE RenderAll(DirRender(s, ds[i]), ds, i + 1)

-----------------------------------------------------------------------------
(* The model (a Backbone.Model) and the user's events.                     *)

\* model.trigger(ev): the callbacks registered for ev when it is triggered.
RECURSIVE RunCallbacks(_, _, _)
RunCallbacks(s, cbs, i) ==
  IF i > Len(cbs) \/ ~Ok(s) THEN s
  ELSE RunCallbacks(DirRender(s, cbs[i].dir), cbs, i + 1)

ModelTrigger(s, ev) ==
  RunCallbacks(s, SelectSeq(s.subs, LAMBDA c : c.on = "m" /\ c.ev = ev), 1)

\* model.set(f, v): change:<f> fires when the value changes.
ModelSet(s, f, v) ==
  LET s0 == [s EXCEPT !.sets = Append(@, <<f, v>>)]
  IN IF s.mattrs[f] = v THEN s0
     ELSE ModelTrigger([s0 EXCEPT !.mattrs[f] = v], Ev("change", f))

\* scope.val(): jQuery reads the value of the first element of the set.
ScopeVal(s, d) ==
  LET first == CHOOSE m \in s.dirs[d].scope : \A o \in s.dirs[d].scope : m <= o
  IN IF s.tag[first] \in {"radio", "check"}
     THEN AttrOf(s, first, N_plainvalue) ELSE s.ctl[first]

\* A DOM event of type e on element n: the onchange listeners attached to n
\* for e (lines 472-474 / 1110-1112).
RECURSIVE RunListeners(_, _, _)
RunListeners(s, ls, i) ==
  IF i > Len(ls) \/ ~Ok(s) THEN s
  ELSE LET d == ls[i].dir
       IN RunListeners(ModelSet(s, s.dirs[d].attrib, ScopeVal(s, d)), ls, i + 1)

DomEvent(s, n, e) == RunListeners(s, SelectSeq(s.listeners[n], LAMBDA l : e \in l.evs), 1)

-----------------------------------------------------------------------------
(* The state machine: one action per call into the program.                *)

Init ==
  /\ build \in {1, 2}
  /\ par \in Trees
  /\ \E kind \in [Nodes -> 1..Len(Kinds)] :
       /\ kind[1] \in RootKinds
       /\ Wrapped(par) => kind[2] \in WrapperKinds /\ kind[3] \in ConditionalKinds
       \* an input element has no children
       /\ \A n \in Nodes : Kinds[kind[n]].tag # "div" => Children(par, n) = {}
       /\ tag = [n \in Nodes |-> Kinds[kind[n]].tag]
       /\ attributes = [n \in Nodes |-> Kinds[kind[n]].attrs]
  /\ mounted = [n \in Nodes |-> TRUE]
  /\ holder = {}
  /\ dirs = <<>>
  \* LM($el).bind(model): Template (lines 65-77), bind (lines 124-128)
  /\ \E m \in {"m", "null"} :
       tpl = [n \in Nodes |-> IF n = 1 THEN [NoTemplate EXCEPT !.made = TRUE, !.model = m]
                              ELSE NoTemplate]
  /\ handlers = [n \in Nodes |-> <<>>]
  /\ listeners = [n \in Nodes |-> <<>>]
  /\ subs = <<>>
  /\ mattrs \in [Fields -> Vals]
  /\ ctl = [n \in Nodes |-> ""]
  /\ checked = [n \in Nodes |-> FALSE]
  /\ text = [n \in Nodes |-> "-"]
  /\ cls = [n \in Nodes |-> FALSE]
  /\ atv = [n \in Nodes |-> "-"]
  /\ last = [op |-> "new", node |-> 0, val |-> "", err |-> "none", renders |-> <<>>, sets |-> <<>>]
  /\ hist = [destroyed |-> FALSE, renderedAfter |-> FALSE, activeAtDestroy |-> {},
             rendered |-> {},
             phase |-> [n \in Nodes |-> "-"], made |-> [n \in Nodes |-> 0],
             dcount |-> [n \in Nodes |-> 0], life |-> [n \in Nodes |-> "fresh"]]
  /\ compiled = NotCompiled

\* The call returned (or threw) in state s: the program's state is s.
Commit(s, op, n, v) ==
  /\ attributes' = s.attributes
  /\ mounted' = s.mounted
  /\ holder' = s.holder
  /\ dirs' = s.dirs
  /\ tpl' = s.tpl
  /\ handlers' = s.handlers
  /\ listeners' = s.listeners
  /\ subs' = s.subs
  /\ mattrs' = s.mattrs
  /\ ctl' = s.ctl
  /\ checked' = s.checked
  /\ text' = s.text
  /\ cls' = s.cls
  /\ atv' = s.atv
  /\ last' = [op |-> op, node |-> n, val |-> v, err |-> s.err, renders |-> s.renders,
              sets |-> s.sets]
  /\ hist' = s.hist
  /\ UNCHANGED <<build, par, tag, compiled>>

\* tpl.render()
Render ==
  Commit(render([State EXCEPT !.hist.renderedAfter = @ \/ hist.destroyed], 1), "render", 0, "")

\* model.set(f, v) by the application, with a new value
Set(f, v) ==
  /\ mattrs[f] # v
  /\ Commit(ModelSet(State, f, v), "set", 0, v)

\* model.trigger("sync")
Sync == Commit(ModelTrigger(State, Ev("sync", "")), "sync", 0, "")

\* The sub-Templates that are mounted and initialized.
ActiveSubs == {n \in Nodes \ {1} : tpl[n].made /\ tpl[n].memo /\ mounted[n]}

\* view.stopListening(), as Backbone's view.remove() calls it: every callback
\* registered with view.listenTo is taken off the model.
StopListening ==
  /\ tpl[1].view
  /\ Commit([State EXCEPT !.subs = SelectSeq(@, LAMBDA c : ~c.via)], "stopListening", 0, "")

\* tpl.destroy(); "again" marks a call that directly follows another destroy().
Destroy ==
  Commit(destroy([State EXCEPT !.hist.destroyed = TRUE,
                               !.hist.activeAtDestroy =
                                  IF hist.destroyed THEN @ ELSE ActiveSubs], 1),
         "destroy", 0, IF last.op = "destroy" THEN "again" ELSE "")

\* The user types v into text input n: the control shows v and fires 'change'.
UserEdit(n, v) ==
  /\ tag[n] = "text"
  /\ InDocument(State, n)
  /\ Commit(DomEvent([State EXCEPT !.ctl[n] = v], n, "change"), "edit", n, v)

\* The user clicks control n.  A radio that was not checked becomes the checked
\* one of its group and fires 'click', then 'change'; a checkbox changes its
\* checked state and fires both; any other click fires 'click'.
thenChange(s, n, fire) == IF fire /\ Ok(s) THEN DomEvent(s, n, "change") ELSE s

UserClick(n) ==
  /\ tag[n] \in {"text", "radio", "check"}
  /\ InDocument(State, n)
  /\ LET group == {m \in Nodes : tag[m] = "radio" /\ InDocument(State, m)
                                 /\ AttrOf(State, m, N_name) = AttrOf(State, n, N_name)}
         s0 == IF tag[n] = "radio"
               THEN [State EXCEPT !.checked = [m \in Nodes |->
                                     IF m \in group THEN m = n ELSE @[m]]]
               ELSE IF tag[n] = "check" THEN [State EXCEPT !.checked[n] = ~@]
               ELSE State
     IN Commit(thenChange(DomEvent(s0, n, "click"), n,
                          (tag[n] = "radio" /\ ~checked[n]) \/ tag[n] = "check"),
               "click", n, "")

Next ==
  \/ Render
  \/ \E f \in Fields : \E v \in Vals : Set(f, v)
  \/ Sync
  \/ Destroy
  \/ \E n \in Nodes, v \in {"X", "Y"} : UserEdit(n, v)
  \/ \E n \in Nodes : UserClick(n)

Spec == Init /\ [][Next]_vars

-----------------------------------------------------------------------------
(* A template created from a Backbone view: LM(view).bind(model).           *)

\* The state after LM(...).bind(model) over markup of the shapes given, its
\* elements drawn from the kinds ks of K; the first root is a plain
\* container.  view: LM() was given a view; attached: whether the roots are
\* in the page; vals: the values the model's attributes start with.
Start(shapes, K, ks, view, attached, vals) ==
  /\ build \in {1, 2}
  /\ par \in shapes
  /\ \E kind \in [Nodes -> ks] :
       /\ K[kind[1]].attrs = <<>>
       /\ \A n \in Nodes : K[kind[n]].tag # "div" => Children(par, n) = {}
       /\ tag = [n \in Nodes |-> K[kind[n]].tag]
       /\ attributes = [n \in Nodes |-> K[kind[n]].attrs]
  /\ \E a \in attached : mounted = [n \in Nodes |-> IF par[n] = 0 THEN a ELSE TRUE]
  /\ holder = {}
  /\ dirs = <<>>
  /\ tpl = [n \in Nodes |->
              IF n = 1 THEN [NoTemplate EXCEPT !.made = TRUE, !.model = "m", !.view = view]
              ELSE NoTemplate]
  /\ handlers = [n \in Nodes |-> <<>>]
  /\ listeners = [n \in Nodes |-> <<>>]
  /\ subs = <<>>
  /\ mattrs \in [Fields -> vals]
  /\ ctl = [n \in Nodes |-> ""]
  /\ checked = [n \in Nodes |-> FALSE]
  /\ text = [n \in Nodes |-> "-"]
  /\ cls = [n \in Nodes |-> FALSE]
  /\ atv = [n \in Nodes |-> "-"]
  /\ last = [op |-> "new", node |-> 0, val |-> "", err |-> "none", renders |-> <<>>, sets |-> <<>>]
  /\ hist = [destroyed |-> FALSE, renderedAfter |-> FALSE, activeAtDestroy |-> {},
             rendered |-> {},
             phase |-> [n \in Nodes |-> "-"], made |-> [n \in Nodes |-> 0],
             dcount |-> [n \in Nodes |-> 0], life |-> [n \in Nodes |-> "fresh"]]

\* Markup of two elements under the root, of the kinds plain, @text, @Html and @if.
ViewKinds == {1, 2, 3, 5}

InitView ==
  /\ Start(TreesOf(MaxNodes - 1), Kinds, ViewKinds, TRUE, {TRUE}, Vals)
  /\ compiled = NotCompiled

NextView ==
  \/ Render
  \/ \E f \in Fields : \E v \in Vals : Set(f, v)
  \/ Sync
  \/ Destroy
  \/ StopListening

SpecView == InitView /\ [][NextView]_vars

-----------------------------------------------------------------------------
(* Form controls and classes: what a render does with the values a model    *)
(* attribute can hold, over the element collections LM() accepts.           *)

N_check == <<"c", "h", "e", "c", "k", "b", "o", "x">>

FormKinds ==
  << [tag |-> "div", attrs |-> <<>>],
     [tag |-> "radio", attrs |-> <<Plain(N_type, "radio"), Plain(N_name, "number"),
                                   Plain(N_plainvalue, "X"), Dir(N_value, E_attrA)>>],
     [tag |-> "radio", attrs |-> <<Plain(N_type, "radio"), Plain(N_name, "number"),
                                   Plain(N_plainvalue, "Y")>>],
     [tag |-> "check", attrs |-> <<Plain(N_type, "checkbox"), Plain(N_name, "opts"),
                                   Plain(N_plainvalue, "X"), Dir(N_value, E_attrA)>>],
     [tag |-> "check", attrs |-> <<Plain(N_type, "checkbox"), Plain(N_name, "opts"),
                                   Plain(N_plainvalue, "Y")>>],
     [tag |-> "text", attrs |-> <<Plain(N_type, "text"), Dir(N_value, E_attrA)>>],
     [tag |-> "div", attrs |-> <<Dir(N_class, E_attrA)>>],
     [tag |-> "text", attrs |-> <<Plain(N_type, "text"), Dir(N_class, E_attrA),
                                  Dir(N_value, E_attrA)>>],
     \* on("sync") alone: no formatter; attr("a") -> !val: two formatters
     [tag |-> "div", attrs |-> <<Dir(N_class, <<Call("on", "sync")>>)>>],
     [tag |-> "div", attrs |-> <<Dir(N_class, E_attrAfn)>>] >>

\* The values of the model's attribute: unset, the number 0, strings, arrays.
FormVals == {"undefined", "0", "X", "Y", "[]", "[X;Y]"}

\* A collection of two root elements: a tree of k - 1 elements and one more root.
TwoRoots(k) == {[n \in 1..k |-> IF n = k THEN 0 ELSE t[n]] : t \in TreesOf(k - 1)}

InitValues ==
  /\ Start(TreesOf(MaxNodes - 1) \cup TwoRoots(MaxNodes - 1), FormKinds,
           1..Len(FormKinds), FALSE, {TRUE, FALSE}, FormVals)
  /\ compiled = NotCompiled

NextValues ==
  \/ Render
  \/ \E f \in Fields : \E v \in FormVals : Set(f, v)
  \/ \E n \in Nodes : UserClick(n)

SpecValues == InitValues /\ [][NextValues]_vars

-----------------------------------------------------------------------------
(* The expression of a directive: the rewriting of the attribute value by   *)
(* parseDirective and the scopes of the runner built by the Directive       *)
(* constructor.  An attribute value is the sequence of its characters.      *)

MaxDots == 2
MaxPasses == 2

\* '.format(function(val) { return (' and '); })', lines 670 / 1305.
FormatOpen ==
  <<".", "f", "o", "r", "m", "a", "t", "(", "f", "u", "n", "c", "t", "i", "o", "n",
    "(", "v", "a", "l", ")", " ", "{", " ", "r", "e", "t", "u", "r", "n", " ", "(">>
FormatClose == <<")", ";", " ", "}", ")">>

\* The index of the leftmost "-> " of value at or after i, 0 if there is none:
\* where /-> (.*)$/ matches a value without line breaks (line 669).
RECURSIVE ArrowAt(_, _)
ArrowAt(value, i) ==
  IF i + 2 > Len(value) THEN 0
  ELSE IF SubSeq(value, i, i + 2) = <<"-", ">", " ">> THEN i
  ELSE ArrowAt(value, i + 1)

\* .replace(/^(\.+)/, ''), lines 672 / 1307.
RECURSIVE StripDots(_)
StripDots(value) ==
  IF value # <<>> /\ Head(value) = "." THEN StripDots(Tail(value)) ELSE value

\* re.value of parseDirective, lines 668-672 / 1303-1307.
re_value(value) ==
  StripDots(IF ArrowAt(value, 1) = 0 THEN value
            ELSE SubSeq(value, 1, ArrowAt(value, 1) - 1) \o FormatOpen
                 \o SubSeq(value, ArrowAt(value, 1) + 3, Len(value)) \o FormatClose)

\* The objects an identifier of the runner's code is looked up in, innermost
\* first: 'with(locals){with(helpers){' + code + '}}' inside
\* new Function('ctx', '$el', 'helpers', 'locals', code), lines 285-286 / 938-939.
Scopes(locals, helpers) ==
  << [of |-> "helpers", names |-> helpers],
     [of |-> "locals", names |-> locals],
     [of |-> "arguments", names |-> {"ctx", "$el", "helpers", "locals"}] >>

\* The object the identifier resolves in: the first scope that has the name,
\* the global object when none has.
RECURSIVE Resolve(_, _, _)
Resolve(name, scopes, i) ==
  IF i > Len(scopes) THEN "global"
  ELSE IF name \in scopes[i].names THEN scopes[i].of
  ELSE Resolve(name, scopes, i + 1)

\* Attribute values as the Readme writes them: leading dots, modifier calls,
\* and a formatter after "-> ".
Modifiers ==
  { <<>>, <<"a", "t", "t", "r", "(", "\"", "a", "\"", ")">>,
    <<"a", "t", "t", "r", "(", "\"", "-", ">", " ", "\"", ")">> }
Formatters ==
  { <<>>, <<"-", ">", " ", "f", "(", "v", "a", "l", ")">>,
    <<"-", ">", " ", "g", "(", "v", "a", "l", ")">>,
    <<"-", ">", " ", "\"", "-", ">", " ", "\"", " ", "+", " ", "v", "a", "l">> }
RECURSIVE Dots(_)
Dots(k) == IF k = 0 THEN <<>> ELSE <<".">> \o Dots(k - 1)
Values ==
  {Dots(k) \o m \o (IF m # <<>> /\ f # <<>> THEN <<" ">> ELSE <<>>) \o f :
     k \in 0..MaxDots, m \in Modifiers, f \in Formatters}

\* The identifiers that locals and LM.helpers may define.
Idents == {"f", "g"}

\* Whether the code calls the function of that name.
Calls(value, name) ==
  \E i \in 1..Len(value) - 2 : SubSeq(value, i, i + 2) = <<"(", name, "(">>

InitCompile ==
  /\ Start({<<0>>}, Kinds, {1}, FALSE, {TRUE}, {"X"})
  /\ \E v \in Values, l \in SUBSET Idents, h \in SUBSET Idents :
       compiled = [forms |-> <<v>>, locals |-> l, helpers |-> h, name |-> "", sees |-> ""]

\* parseDirective(name, value) on the value it was last given.
ParseDirective ==
  /\ Len(compiled.forms) <= MaxPasses
  /\ compiled' = [compiled EXCEPT
                    !.forms = Append(@, re_value(compiled.forms[Len(compiled.forms)]))]
  /\ last' = [last EXCEPT !.op = "parseDirective"]
  /\ UNCHANGED <<build, par, tag, attributes, mounted, holder, dirs, tpl, handlers,
                 listeners, subs, mattrs, ctl, checked, text, cls, atv, hist>>

\* The runner of the Directive constructor reaches the identifier `name` of
\* the parsed value (lines 284-290 / 937-943).
RunIdentifier(name) ==
  /\ Len(compiled.forms) > 1
  /\ Calls(compiled.forms[Len(compiled.forms)], name)
  /\ compiled' = [compiled EXCEPT
                    !.name = name,
                    !.sees = Resolve(name, Scopes(compiled.locals, compiled.helpers), 1)]
  /\ last' = [last EXCEPT !.op = "Directive"]
  /\ UNCHANGED <<build, par, tag, attributes, mounted, holder, dirs, tpl, handlers,
                 listeners, subs, mattrs, ctl, checked, text, cls, atv, hist>>

NextCompile ==
  \/ ParseDirective
  \/ \E name \in Idents : RunIdentifier(name)

SpecCompile == InitCompile /\ [][NextCompile]_vars

-----------------------------------------------------------------------------
(* Two Templates bound to one model: the one of the page and one that the   *)
(* application creates over an element inside it (a child view's element).  *)

\* Markup without conditionals: plain, @text, @Html and @class elements.
SharedKinds == {1, 2, 3, 4}

\* The values of the model's attribute.
SharedVals == {"false", "X"}

InitShared ==
  /\ Start(TreesOf(MaxNodes - 1), Kinds, SharedKinds, FALSE, {TRUE}, SharedVals)
  /\ compiled = NotCompiled

\* LM($(element n)).bind(model): Template (lines 65-77 / 751-764) and bind
\* (lines 124-128 / 802-806) with the model the first Template is bound to.
\* The application creates one such Template.
NewTemplate(n) ==
  /\ n # 1
  /\ \A t \in Nodes : tpl[t].made <=> t = 1
  /\ Commit(NoteMade([State EXCEPT !.tpl[n] = [NoTemplate EXCEPT !.made = TRUE,
                                                                 !.model = tpl[1].model]], n),
            "new", n, "")

\* render() and destroy() of the Template over element t.
RenderOf(t) == tpl[t].made /\ Commit(render(State, t), "render", t, "")

DestroyOf(t) == tpl[t].made /\ Commit(destroy(State, t), "destroy", t, "")

NextShared ==
  \/ \E n \in Nodes : NewTemplate(n)
  \/ \E t \in Nodes : RenderOf(t)
  \/ \E t \in Nodes : DestroyOf(t)
  \/ \E f \in Fields : \E v \in SharedVals : Set(f, v)
  \/ Sync

SpecShared == InitShared /\ [][NextShared]_vars

-----------------------------------------------------------------------------
(* A template that is bound again: tpl.bind(m2), with events on both models. *)

InitBind ==
  /\ Start(TreesOf(MaxNodes - 1), Kinds, ViewKinds, FALSE, {TRUE}, SharedVals)
  /\ compiled = NotCompiled

\* A bind() that hands the model to the directives made so far and moves
\* their callbacks to it.
bindDirectives(m) ==
  /\ tpl[1].model # m
  /\ Commit([State EXCEPT !.tpl[1].model = m,
                          !.dirs = [d \in DOMAIN dirs |-> [dirs[d] EXCEPT !.model = m]],
                          !.subs = [i \in DOMAIN subs |-> [subs[i] EXCEPT !.on = m]]],
            "bind", 0, m)

\* tpl.bind(m), lines 124-128 / 802-806, with a model other than the bound one.
Bind(m) ==
  /\ tpl[1].model # m
  /\ Commit([State EXCEPT !.tpl[1].model = m], "bind", 0, m)

\* m2.trigger(name): the callbacks registered on m2 for the event run.
OtherTrigger(name, arg) ==
  Commit(RunCallbacks(State, SelectSeq(subs, LAMBDA c : c.on = "m2" /\ c.ev = Ev(name, arg)), 1),
         name \o "2", 0, arg)

NextBind ==
  \/ Render
  \/ \E f \in Fields : \E v \in SharedVals : Set(f, v)
  \/ Sync
  \/ \E m \in {"m", "m2"} : Bind(m)
  \/ \E f \in Fields : OtherTrigger("change", f)
  \/ OtherTrigger("sync", "")

SpecBind == InitBind /\ [][NextBind]_vars

-----------------------------------------------------------------------------
(* Properties.  `last` is the call that led to the current state and `hist` *)
(* what happened before it, so each property below is a state predicate.   *)

\* The calls that make the model fire events: model.set / model.trigger by the
\* application, and user events whose listeners call model.set.
ModelEvents == {"set", "sync", "edit", "click"}

\* The renders of directive d during the last call, in order.
RendersOf(d) == SelectSeq(last.renders, LAMBDA r : r.dir = d)

\* The directives of Template t rendered during the last call, in order.
RenderIds(t) ==
  LET X == SelectSeq(last.renders, LAMBDA r : dirs[r.dir].tpl = t)
  IN [i \in 1..Len(X) |-> X[i].dir]

\* Discovery order: directives are numbered as they are constructed, and an
\* earlier one sits on the same element or on one that precedes it in pre-order.
Ordered(ds) ==
  \A i, j \in DOMAIN ds : i < j => ds[i] < ds[j] /\ dirs[ds[i]].node <= dirs[ds[j]].node

IfDirs == {d \in DOMAIN dirs : dirs[d].action = A_if}

\* d was written as attr("a") -> !val
AttrFormat(d) ==
  dirs[d].formatters = <<[f |-> "get", arg |-> "a"], [f |-> "fn", arg |-> "not"]>>

Subscribed(d) == \E i \in DOMAIN subs : subs[i].dir = d

\* d is a @value directive on a text input
ValueText(d) == dirs[d].action = A_value /\ tag[dirs[d].node] = "text"

ListenersOf(d) == {n \in Nodes : \E i \in DOMAIN listeners[n] : listeners[n][i].dir = d}

\* C1: after Template.destroy() (and no render() since), no model event
\* invokes the render of any directive: a model.set, a model.trigger or a
\* user event that follows the destroy renders nothing.
C1_NoRenderAfterDestroy ==
  (hist.destroyed /\ ~hist.renderedAfter /\ last.op \in ModelEvents) => last.renders = <<>>

\* C1, with the private emitter of the second definition (no bubbling).
C1_PrivateEmitter == build = 2 => C1_NoRenderAfterDestroy

\* C2: when the first three renders of an @if directive see a truthy, a falsy
\* and a truthy value, two sub-Templates have been constructed for it, two
\* destructions performed, and no destroyed sub-Template has been rendered.
C2_FreshSubTemplate ==
  \A n \in Nodes :
    hist.phase[n] = "TFT" =>
      hist.made[n] = 2 /\ hist.dcount[n] = 2 /\ hist.life[n] # "reused"

\* C3: an @if directive that has not rendered yet has its element detached
\* with the marker in place; after a call in which the directive rendered, the
\* element is attached iff the value of its last render was truthy.
C3_MountedIffTruthy ==
  \A d \in IfDirs :
    /\ hist.phase[dirs[d].node] = "-" =>
         ~mounted[dirs[d].node] /\ dirs[d].node \in holder
    /\ RendersOf(d) # <<>> =>
         (mounted[dirs[d].node] <=> Truthy(RendersOf(d)[Len(RendersOf(d))].val))

\* C3, with the private emitter of the second definition.
C3_PrivateEmitter == build = 2 => C3_MountedIffTruthy

\* C4: after the root Template was destroyed while a sub-Template of an @if
\* was active (and no render() since), no model event renders a directive of
\* a sub-Template.
C4_ParentDestroysSub ==
  (/\ hist.destroyed /\ ~hist.renderedAfter
   /\ hist.activeAtDestroy # {}
   /\ last.op \in ModelEvents)
  => \A i \in DOMAIN last.renders : dirs[last.renders[i].dir].tpl = 1

\* C4, with the private emitter of the second definition.
C4_PrivateEmitter == build = 2 => C4_ParentDestroysSub

\* C5: a model.set that changes field a renders a subscribed directive
\* written attr("a") -> !val exactly once, with the value !model.get("a").
C5_OneRenderPerChange ==
  \A d \in DOMAIN dirs :
    (AttrFormat(d) /\ Subscribed(d) /\ last.op = "set") =>
       /\ Len(RendersOf(d)) = 1
       /\ RendersOf(d)[1].val = (IF Truthy(mattrs["a"]) THEN "false" ELSE "true")

\* C6: for @value='attr("a")' on a text input of a template that was not
\* destroyed: no listener is attached before the directive's first render;
\* once it has rendered, a model.set shows the new value in the control (while
\* the control is in the document), and a user edit of the control calls
\* model.set("a", <the text typed>) exactly once.
C6_TwoWayValue ==
  \A d \in DOMAIN dirs :
    ValueText(d) =>
      /\ d \notin hist.rendered => ListenersOf(d) = {}
      /\ (/\ d \in hist.rendered /\ ~hist.destroyed
          /\ last.op = "set" /\ InDocument(State, dirs[d].node))
         => ctl[dirs[d].node] = ToStr(mattrs["a"])
      /\ (/\ d \in hist.rendered /\ ~hist.destroyed
          /\ last.op = "edit" /\ last.node = dirs[d].node)
         => last.sets = << <<"a", last.val>> >> /\ mattrs["a"] = last.val

\* C7: after Template.destroy() (and no render() since), no user event on a
\* control calls model.set.
C7_ListenerRemoved ==
  (hist.destroyed /\ ~hist.renderedAfter /\ last.op \in {"edit", "click"})
  => last.sets = <<>>

\* C8: no Directive is ever constructed on a descendant of an element for
\* which a @text or @html Directive was constructed.
C8_NoDescent ==
  \A d, e \in DOMAIN dirs :
    dirs[d].action \in {A_text, A_html} => ~IsAncestor(par, dirs[d].node, dirs[e].node)

\* C9: a render() of the initialized root Template renders each directive of
\* the Template's list once, in the order of the list, and the list is in
\* discovery order.
C9_RenderOrder ==
  (last.op = "render" /\ tpl[1].memo) =>
     RenderIds(1) = tpl[1].directives /\ Ordered(tpl[1].directives)

\* C9, with the private emitter of the second definition.
C9_PrivateEmitter == build = 2 => C9_RenderOrder

\* C10: every Directive that has been constructed names, in lower case, an
\* action of the registry (for any other name the construction threw).
C10_UnknownAction ==
  \A d \in DOMAIN dirs : toLowerCase(dirs[d].name) \in ActionsOf(build)

\* The errors of a binding modifier that finds no model (lines 578, 603).
NoModelErrors == {"attr(): no model to bind to", "on(): no model to bind to"}

\* The expression of directive record o calls attr() or on().
NeedsModel(o) == \E i \in DOMAIN o.value : o.value[i].m \in {"attr", "on"}

\* Nothing was registered for directive d: no model subscription, no getter
\* among its formatters, no bound field.
Unregistered(ds, cbs, d) ==
  /\ \A i \in DOMAIN cbs : cbs[i].dir # d
  /\ \A i \in DOMAIN ds[d].formatters : ds[d].formatters[i].f # "get"
  /\ ds[d].attrib = "none"

\* C11: a call that constructs a Directive whose expression uses attr() or
\* on() in a template without a model ends with the "no model to bind to"
\* error, the construction having registered nothing; and such a directive is
\* never rendered (evaluated) afterwards and never gets anything registered.
C11_NoModelFailsFast ==
  /\ [](\A d \in DOMAIN dirs :
          (dirs[d].model = "null" /\ NeedsModel(dirs[d]))
          => Unregistered(dirs, subs, d) /\ d \notin hist.rendered)
  /\ [][(/\ Len(dirs') > Len(dirs)
         /\ dirs'[Len(dirs')].model = "null"
         /\ NeedsModel(dirs'[Len(dirs')]))
        => /\ last'.err \in NoModelErrors
           /\ Unregistered(dirs', subs', Len(dirs'))]_vars

\* C11 witness: a render() threw the no-model error of a constructed directive.
C11_Witness ==
  /\ last.op = "render" /\ last.err \in NoModelErrors
  /\ \E d \in DOMAIN dirs : dirs[d].model = "null" /\ NeedsModel(dirs[d])

\* A destroy() that directly follows a destroy() returns normally and leaves
\* the model's callbacks, the DOM listeners and the DOM as they were.
SecondDestroyIsNoOp ==
  (last.op = "destroy" /\ last'.op = "destroy")
  => /\ last'.err = "none"
     /\ UNCHANGED <<subs, listeners, handlers, mounted, holder, attributes,
                    text, cls, atv, ctl, checked>>

\* C13: Template.destroy() is idempotent: a second call raises no error and
\* changes no model subscription, no DOM listener and nothing of the DOM.
C13_DestroyIdempotent == [][SecondDestroyIsNoOp]_vars

\* C13, with the private emitter of the second definition.
C13_PrivateEmitter == [][build = 2 => SecondDestroyIsNoOp]_vars

\* C14: in a template created from a view, every callback on the model was
\* registered with view.listenTo, and once the view has stopped listening the
\* model holds no callback of the template's directives.
C14_ThroughView ==
  tpl[1].view =>
    /\ \A i \in DOMAIN subs : subs[i].via
    /\ last.op = "stopListening" => subs = <<>>

\* C12: a Template over a collection of more than one root element is not
\* constructed.
C12_SingleRoot == Cardinality({n \in Nodes : par[n] = 0}) > 1 => ~tpl[1].made

\* The value of the last render of d in the last call.
LastVal(d) == RendersOf(d)[Len(RendersOf(d))].val

\* The controls that share the name of the element of directive d.
SameName(d) ==
  {m \in Nodes : /\ tag[m] \in {"radio", "check"}
                  /\ AttrOf(State, m, N_name) = AttrOf(State, dirs[d].node, N_name)}

\* The evaluated list of a value: the array itself, or the value alone.
Listed(val) == IF isArray(val) THEN ListElems[val] ELSE <<val>>

\* After a call in which @value directive d on a radio or checkbox rendered a
\* defined value, each control of its name is checked iff its value attribute
\* is in the evaluated list.
CheckedIffListed(d) ==
  (/\ dirs[d].action = A_value /\ isMulti(State, d)
   /\ RendersOf(d) # <<>> /\ LastVal(d) # "undefined")
  => \A m \in SameName(d) :
       checked[m] <=> \E i \in DOMAIN Listed(LastVal(d)) :
                         Listed(LastVal(d))[i] = AttrOf(State, m, N_plainvalue)

\* C15: rendering @value on a radio or checkbox checks exactly the controls
\* of the same name whose value attribute is a member of the evaluated list.
C15_GroupChecked == \A d \in DOMAIN dirs : CheckedIffListed(d)

\* C15, for checkboxes of a template whose root is in the page.
C15_CheckboxesInPage ==
  \A d \in DOMAIN dirs :
    (tag[dirs[d].node] = "check" /\ mounted[1]) => CheckedIffListed(d)

\* C15 witness: a checkbox directive rendered the array of "X" and "Y" and
\* both checkboxes of its name are checked.
C15_Witness ==
  \E d \in DOMAIN dirs :
    /\ tag[dirs[d].node] = "check" /\ RendersOf(d) # <<>> /\ LastVal(d) = "[X;Y]"
    /\ Cardinality(SameName(d)) = 2 /\ \A m \in SameName(d) : checked[m]

\* The value attribute of each radio.
RadioValues(attrs) ==
  [n \in {m \in Nodes : tag[m] = "radio"} |->
     {attrs[n][i].v : i \in {j \in DOMAIN attrs[n] : attrs[n][j].name = N_plainvalue}}]

\* C16: no call changes the value attribute of a radio, whatever value the
\* @value directive of its group renders.
C16_RadioValuesKept == [][RadioValues(attributes') = RadioValues(attributes)]_vars

\* C16 witness: the @value directive of a radio rendered, with a second radio
\* of the same name in its scope.
C16_Witness ==
  \E d \in DOMAIN dirs :
    /\ tag[dirs[d].node] = "radio" /\ RendersOf(d) # <<>>
    /\ Cardinality(dirs[d].scope) = 2

\* The coercion as specified: for a multi-valued control undefined becomes the
\* empty array, an array stays, any other value is wrapped; for any other
\* control the value is passed as it is.
SpecCoerce(multi, val) ==
  IF ~multi \/ isArray(val) THEN val
  ELSE IF val = "undefined" THEN "[]" ELSE Wrap(val)

\* C17: the value each render of a @value directive applies to its controls
\* is the evaluated value coerced as specified.
C17_Coercion ==
  \A i \in DOMAIN last.renders :
    dirs[last.renders[i].dir].action = A_value
    => last.renders[i].applied =
         SpecCoerce(isMulti(State, last.renders[i].dir), last.renders[i].val)

\* C17, an evaluated value of undefined and the first definition's text
\* inputs set aside.
C17_DefinedValues ==
  \A i \in DOMAIN last.renders :
    (/\ dirs[last.renders[i].dir].action = A_value
     /\ last.renders[i].val # "undefined"
     /\ build = 2 \/ isMulti(State, last.renders[i].dir))
    => last.renders[i].applied =
         SpecCoerce(isMulti(State, last.renders[i].dir), last.renders[i].val)

\* C18: after a call in which a @class directive rendered, its element has the
\* class iff the value of the last render was truthy.
C18_ClassIffTruthy ==
  \A d \in DOMAIN dirs :
    (dirs[d].action = A_class /\ RendersOf(d) # <<>>)
    => (cls[dirs[d].node] <=> Truthy(LastVal(d)))

\* C18 witness: a @class directive rendered the value 0 on an element that had
\* the class, and the class is gone.
C18_Witness ==
  \E d \in DOMAIN dirs :
    /\ dirs[d].action = A_class /\ d \in hist.rendered
    /\ last.op = "set" /\ RendersOf(d) # <<>> /\ LastVal(d) = "0"
    /\ ~cls[dirs[d].node]

\* C19: an identifier defined both in the Template's locals and in LM.helpers
\* is resolved in the locals.
C19_LocalsBeforeHelpers ==
  compiled.name \in compiled.locals \cap compiled.helpers => compiled.sees = "locals"

\* C19, for an identifier LM.helpers does not define: the locals come before
\* the runner's arguments and the global object.
C19_LocalsBeforeGlobals ==
  compiled.name \in compiled.locals \ compiled.helpers => compiled.sees = "locals"

\* More than one "-> " in the value.
TwoArrows(value) ==
  ArrowAt(value, 1) # 0 /\ ArrowAt(value, ArrowAt(value, 1) + 1) # 0

\* C20: parseDirective's rewriting of a value it has already rewritten gives
\* the same value.
C20_ExpandIdempotent ==
  Len(compiled.forms) = 3 => compiled.forms[3] = compiled.forms[2]

\* C20, for attribute values with at most one "-> ".
C20_SingleArrow ==
  (Len(compiled.forms) = 3 /\ ~TwoArrows(compiled.forms[1]))
  => compiled.forms[3] = compiled.forms[2]

\* The model events the last call fired.
LastEvents ==
  IF last.op = "sync" THEN {Ev("sync", "")} ELSE {Ev("change", f) : f \in Fields}

\* The events of the model.
ModelEventNames == {Ev("sync", "")} \cup {Ev("change", f) : f \in Fields}

\* The expression of d subscribes to ev: it calls attr(<field>) or on(<name>).
SubscribesTo(d, ev) ==
  \E i \in DOMAIN dirs[d].value :
    \/ dirs[d].value[i].m = "attr" /\ ev = Ev("change", dirs[d].value[i].arg)
    \/ dirs[d].value[i].m = "on" /\ ev = Ev(dirs[d].value[i].arg, "")

C21_RootDirectives ==
  last.op \in ModelEvents =>
    \A i \in DOMAIN last.renders :
      dirs[last.renders[i].dir].tpl = 1
      => \E ev \in LastEvents : SubscribesTo(last.renders[i].dir, ev)

\* Render i of the last call was made by sub.render() of an @if directive that
\* rendered a truthy value earlier in the call.
RenderedBySub(i) ==
  \E j \in 1..(i - 1) :
    /\ dirs[last.renders[j].dir].action = A_if
    /\ dirs[last.renders[j].dir].node = dirs[last.renders[i].dir].tpl
    /\ Truthy(last.renders[j].val)

C22_EachRenders ==
  \A n \in Nodes :
    (/\ last.op = "render"
     /\ AttrOf(State, n, N_plainclass) = "list"
     /\ AttrOf(State, n, N_each) = "undefined")
    => /\ last.err = "none"
       /\ Len(LiveChildren(State, n)) = 2
       /\ text[LiveChildren(State, n)[1]] = "X"
       /\ text[LiveChildren(State, n)[2]] = "Y"

\* C23: as long as destroy() was not called on the root Template, every
\* directive in the list of the initialized root Template whose expression calls attr()
\* or on() is subscribed to the model, and no call ends in unbounded
\* recursion: the destroy of a sub-Template does not reach the handlers of
\* its parent.
C23_NoUpwardDestroy ==
  (~hist.destroyed /\ tpl[1].memo) =>
    /\ last.err # "RangeError"
    /\ \A i \in DOMAIN tpl[1].directives :
         (\E ev \in ModelEventNames : SubscribesTo(tpl[1].directives[i], ev))
         => Subscribed(tpl[1].directives[i])

\* C23, with the private emitter of the second definition.
C23_PrivateEmitter == build = 2 => C23_NoUpwardDestroy

\* The Directives constructed for Template t, and the model's callbacks that
\* render one of them.
DirsOf(ds, t) == {d \in DOMAIN ds : ds[d].tpl = t}
SubsOf(ds, ss, t) == SelectSeq(ss, LAMBDA c : ds[c.dir].tpl = t)

\* Template t keeps its directive list, gets no new Directive and no
\* additional subscription in the step.
NoNewInit(t) ==
  /\ tpl'[t].directives = tpl[t].directives
  /\ DirsOf(dirs', t) = DirsOf(dirs, t)
  /\ \A i \in DOMAIN SubsOf(dirs', subs', t) :
       \E j \in DOMAIN SubsOf(dirs, subs, t) :
          SubsOf(dirs', subs', t)[i] = SubsOf(dirs, subs, t)[j]

\* C24: once a Template has been initialized by its first render(), no
\* render() and no event changes its directive list, constructs a Directive
\* for it or adds a subscription for it, and while destroy() has not been
\* called the subscriptions of the root Template stay the same.
C24_OneTimeInit ==
  [][\A t \in Nodes :
       tpl[t].memo =>
         /\ NoNewInit(t)
         /\ (t = 1 /\ ~hist'.destroyed)
            => SubsOf(dirs', subs', 1) = SubsOf(dirs, subs, 1)]_vars

\* C24, the subscriptions that are taken away set aside.
C24_NothingAdded == [][\A t \in Nodes : tpl[t].memo => NoNewInit(t)]_vars

\* C24, with the private emitter of the second definition.
C24_PrivateEmitter ==
  [][build = 2 =>
       \A t \in Nodes :
         tpl[t].memo =>
           /\ NoNewInit(t)
           /\ (t = 1 /\ ~hist'.destroyed)
              => SubsOf(dirs', subs', 1) = SubsOf(dirs, subs, 1)]_vars

\* Directive d is in the directive list of its initialized Template.
InList(d) ==
  /\ tpl[dirs[d].tpl].memo
  /\ \E i \in DOMAIN tpl[dirs[d].tpl].directives : tpl[dirs[d].tpl].directives[i] = d

\* A configuration error: unknown action, missing model.
ConfigErrors == {"No action named"} \cup NoModelErrors

\* C25: a render() that threw a configuration error leaves no Directive
\* subscribed that is not in the directive list of an initialized Template,
\* and a model event renders only Directives that are in such a list.
C25_NoPartialWiring ==
  /\ (last.op = "render" /\ last.err \in ConfigErrors) =>
       \A d \in DOMAIN dirs : Subscribed(d) => InList(d)
  /\ last.op \in ModelEvents =>
       \A i \in DOMAIN last.renders : InList(last.renders[i].dir)

\* The listeners of directive d on element n.
ListenerIds(d, n) == {i \in DOMAIN listeners[n] : listeners[n][i].dir = d}

\* C26: a @value directive has at most one write-back listener on a control,
\* and only if attr() recorded its field; a user event on a control calls
\* model.set at most once for each directive listening on that control.
C26_OneListener ==
  /\ \A d \in DOMAIN dirs, n \in Nodes :
       /\ Cardinality(ListenerIds(d, n)) <= 1
       /\ ListenerIds(d, n) # {} => dirs[d].action = A_value /\ dirs[d].attrib # "none"
  /\ last.op \in {"edit", "click"} =>
       Len(last.sets) <= Cardinality({d \in DOMAIN dirs : ListenerIds(d, last.node) # {}})

\* C26, with the listener of the second definition, bound to 'change' alone.
C26_ChangeOnly == build = 2 => C26_OneListener

\* C26, the number of model.set calls of a user event set aside.
C26_Latch ==
  \A d \in DOMAIN dirs, n \in Nodes :
    /\ Cardinality(ListenerIds(d, n)) <= 1
    /\ ListenerIds(d, n) # {} => dirs[d].action = A_value /\ dirs[d].attrib # "none"

\* Every element of the sequence ss2 is an element of ss1.
Within(ss2, ss1) == \A i \in DOMAIN ss2 : \E j \in DOMAIN ss1 : ss2[i] = ss1[j]

\* The events that directives of the Templates ts listen to on the controls.
Listening(ds, ls, ts) ==
  {x \in (DOMAIN ls) \X (DOMAIN ds) \X {"change", "click"} :
     \E i \in DOMAIN ls[x[1]] :
        /\ ls[x[1]][i].dir = x[2] /\ x[3] \in ls[x[1]][i].evs
        /\ ds[x[2]].tpl \in ts}

\* C27: once destroy() has been called on a root Template that had been
\* initialized by a render(), neither a model event nor the next render() adds
\* a subscription to the model or a listener to a control.
C27_Irreversible ==
  [][(hist.destroyed /\ ~hist.renderedAfter /\ tpl[1].memo) =>
       /\ Within(subs', subs)
       /\ Listening(dirs', listeners', Nodes) \subseteq Listening(dirs, listeners, Nodes)]_vars

\* The callbacks on the model that the directives of Template t registered.
CallbacksOf(ds, ss, t) == {ss[i] : i \in {j \in DOMAIN ss : ds[ss[j].dir].tpl = t}}

\* The Templates the application created.
Templates == {t \in Nodes : tpl[t].made}

\* destroy() of a Template that has callbacks on the model leaves the
\* callbacks of every other Template on the model (the callbacks a model event
\* runs, each rendering its directive).
OwnCallbacks ==
  (last'.op = "destroy" /\ CallbacksOf(dirs, subs, last'.node) # {}) =>
     \A t \in Templates \ {last'.node} :
       CallbacksOf(dirs, subs, t) \subseteq CallbacksOf(dirs', subs', t)

\* C28: subscriptions on a shared model are owned per subscriber: destroying
\* one of two Templates subscribed to the same model removes only the
\* callbacks that Template registered, and every directive of the other
\* Template is still rendered by later model events.
C28_OwnCallbacks == [][OwnCallbacks]_vars

\* C28, when the Template's events are on its private emitter.
C28_PrivateEmitter == [][build = 2 => OwnCallbacks]_vars

\* The elements the walk of the root Template reaches in markup without
\* @text, @html and @if: the first root and what is under it.
Walked == {1} \cup Descendants(par, 1)

\* The attributes of element n whose name matches the directive grammar.
DirectiveAttrs(n) ==
  {i \in DOMAIN attributes[n] : parseDirective(attributes[n][i].name).match}

\* C29: after a render no attribute matching the directive grammar remains on
\* an element the walk reaches, also on an element that carries two directive
\* attributes.
C29_NoneRemains == last.op = "render" => \A n \in Walked : DirectiveAttrs(n) = {}

\* C29, for the elements with at most one directive attribute, placed last.
C29_LastAttribute ==
  (last.op = "render" /\ last.err = "none") => \A n \in Walked : DirectiveAttrs(n) = {}

\* What model.get("a") returns on the model m.
ReadOf(m, attrs) == IF m = "m" THEN attrs["a"] ELSE OtherAttrs["a"]

\* The value directive d computes from the attribute value v of its model.
Computes(ds, d, v) ==
  IF ds[d].value = E_attrA THEN v
  ELSE IF ds[d].value = E_attrAfn THEN (IF Truthy(v) THEN "false" ELSE "true")
  ELSE "yes"

\* The model whose event the call made in this step fired ("null": none).
FiredOn(op) ==
  IF op \in {"set", "sync"} THEN "m"
  ELSE IF op \in {"change2", "sync2"} THEN "m2" ELSE "null"

\* The directives with a callback for event ev on model m.
CallbacksFor(m, ev) == {subs[i].dir : i \in {j \in DOMAIN subs : subs[j].on = m /\ subs[j].ev = ev}}

\* One step keeps each Directive on the model it was constructed with.
KeepsModel ==
  \* bind() leaves the directives and the callbacks as they are
  /\ last'.op = "bind" => dirs' = dirs /\ subs' = subs
  \* a directive keeps its model, and a render reads that model
  /\ \A d \in DOMAIN dirs : dirs'[d].model = dirs[d].model
  /\ \A i \in DOMAIN last'.renders :
       LET d == last'.renders[i].dir
       IN /\ last'.renders[i].val = Computes(dirs', d, ReadOf(dirs'[d].model, mattrs'))
          \* an event on one model renders no directive of the other
          /\ FiredOn(last'.op) # "null" => dirs'[d].model = FiredOn(last'.op)
  \* an event on the model of a directive renders it
  /\ (last'.op = "set" /\ last'.err = "none") =>
        \A d \in CallbacksFor("m", Ev("change", "a")) :
          \E i \in DOMAIN last'.renders : last'.renders[i].dir = d

\* C30: a Directive's model is captured when the directive is constructed:
\* Template.bind(m2) changes neither the model that existing directives read
\* nor the model they are subscribed to; events on the model bound before
\* still render them and events on m2 do not.
C30_ModelCaptured == [][KeepsModel]_vars

\* C30 witness: after bind(m2), a model.set on the first model has rendered a
\* directive made before the bind, with the value read from the first model.
C30_Witness ==
  /\ tpl[1].model = "m2" /\ last.op = "set" /\ last.err = "none"
  /\ \E i \in DOMAIN last.renders :
       LET d == last.renders[i].dir
       IN /\ dirs[d].model = "m" /\ dirs[d].tpl = 1 /\ dirs[d].value = E_attrA
          /\ last.renders[i].val = mattrs["a"]
          /\ mattrs["a"] # OtherAttrs["a"]

\* fn(...f2(f1(null))) for the first n formatters of the list fs, each applied
\* to what the one before it returned, with the model's attributes attrs.
RECURSIVE Composed(_, _, _)
Composed(fs, n, attrs) ==
  IF n = 0 THEN "null"
  ELSE ApplyFormatter([mattrs |-> attrs], fs[n], Composed(fs, n - 1, attrs))

\* One step: every value rendered is the composition of the directive's
\* formatters in the order they were appended, null when there is none, and
\* the formatter list of a directive that exists stays as it is.
FoldsInOrder ==
  /\ \A i \in DOMAIN last'.renders :
       LET d == last'.renders[i].dir
           fs == dirs'[d].formatters
       IN dirs'[d].action # A_Object =>
            /\ last'.renders[i].val = Composed(fs, Len(fs), mattrs')
            /\ fs = <<>> => last'.renders[i].val = "null"
  /\ \A d \in DOMAIN dirs : dirs'[d].formatters = dirs[d].formatters

\* C31: getValue() folds the directive's formatters left to right over the
\* seed null: with f1..fn in the order the modifiers appended them the result
\* is fn(...f2(f1(null))), with no formatter it is null, and evaluation
\* neither adds nor removes a formatter.
C31_FoldLeftToRight == [][FoldsInOrder]_vars

\* C31 witness: one render() has rendered a directive with no formatter as
\* null and a directive with the formatters get("a"), !val as the negation of
\* the attribute, which differs from the attribute.
C31_Witness ==
  /\ last.op = "render" /\ last.err = "none"
  /\ \E i, j \in DOMAIN last.renders :
       /\ dirs[last.renders[i].dir].formatters = <<>>
       /\ last.renders[i].val = "null"
       /\ dirs[last.renders[j].dir].formatters =
            <<[f |-> "get", arg |-> "a"], [f |-> "fn", arg |-> "not"]>>
       /\ last.renders[j].val = (IF Truthy(mattrs["a"]) THEN "false" ELSE "true")
       /\ last.renders[j].val # mattrs["a"]

\* C32: an @if subtree is live every time it is mounted: once the governing
\* value has gone true, false, true and the element is mounted, every directive
\* of the subtree that uses attr() or on() has a callback on the model (as long
\* as the root Template was not destroyed).
C32_LiveWhenRemounted ==
  \A n \in Nodes :
    (hist.phase[n] = "TFT" /\ mounted[n] /\ ~hist.destroyed) =>
      \A e \in DOMAIN dirs :
        (dirs[e].tpl = n /\ NeedsModel(dirs[e])) => Subscribed(e)

\* C32, for the first time the subtree is mounted.
C32_LiveWhenFirstMounted ==
  \A n \in Nodes :
    (hist.phase[n] = "T" /\ mounted[n] /\ ~hist.destroyed /\ tpl[n].memo) =>
      \A i \in DOMAIN tpl[n].directives :
        NeedsModel(dirs[tpl[n].directives[i]]) => Subscribed(tpl[n].directives[i])

====
